---------------------------- MODULE Spec2Model ----------------------------
(***************************************************************************)
(* A model of leveldb::BuildTable (src/db/builder.cc): one invocation,     *)
(* stepped statement group by statement group, together with the           *)
(* collaborators it drives (source iterator, Env, TableBuilder,            *)
(* WritableFile, TableCache).  Every collaborator call that can fail       *)
(* chooses its outcome nondeterministically.                               *)
(***************************************************************************)
EXTENDS Naturals, Sequences, FiniteSets

\* ------------------------------------------------------------------ bounds
MaxLen == 3      \* longest source (entries yielded by the iterator)
MaxSeq == 2      \* sequence numbers are 1..MaxSeq
NumKeys == 2     \* user keys are 1..NumKeys

VARIABLES
  src,            \* the entries behind Iterator* iter, in iteration order
  pos,            \* iterator position (1-based index into src)
  iterStatus,     \* iter->status()
  options,        \* const Options& options (the three fields read)
  newest_snapshot,
  earliest_seqno_in_memtable,
  meta,           \* FileMetaData* meta
  s,              \* Status s
  purge,          \* bool purge
  prev,           \* prev_key / prev_value / prev_ikey (purge mode)
  builderState,   \* TableBuilder* builder: none, open, finished, abandoned
  builderOK,      \* the builder's internal status is OK
  builderDeleted, \* number of times "delete builder" ran
  added,          \* arguments of the calls builder->Add(key, value), in order
  files,          \* Env: the names of the files that exist on disk
  peer,           \* a second invocation, parked while this one runs
  log,            \* collaborator calls made so far, with the status returned
  pc              \* position in BuildTable

vars == <<peer, src, pos, iterStatus, options, newest_snapshot,
          earliest_seqno_in_memtable, meta, s, purge, prev, builderState,
          builderOK, builderDeleted, added, files, log, pc>>

\* ---------------------------------------------------------------- statuses
OK == "OK"
CreateErr == "IOError: NewWritableFile"
WriteErr == "IOError: TableBuilder"
SyncErr == "IOError: sync"
CloseErr == "IOError: Close"
VerifyErr == "Corruption: NewIterator"
SourceErr == "Corruption: source iterator"

\* ------------------------------------------------------------ internal keys
UserKeys == 1..NumKeys
SeqNos == 1..MaxSeq

\* An internal key is the user key followed by the packed (sequence, type)
\* tag; the model keeps the two parts as a pair.
InternalKey(uk, seq) == <<uk, seq>>

\* ParseInternalKey: split an internal key into user_key and sequence.
ParseInternalKey(k) == [user_key |-> k[1], sequence |-> k[2]]

\* The payload stored with an internal key; distinct keys carry distinct
\* payloads, so a value attached to the wrong key is always visible.
ValueOf(uk, seq) == <<"v", uk, seq>>

Entry(uk, seq) == [key |-> InternalKey(uk, seq), value |-> ValueOf(uk, seq)]

\* InternalKeyComparator order: user key ascending, then sequence descending.
InternalKeyLess(a, b) ==
  \/ a[1] < b[1]
  \/ a[1] = b[1] /\ a[2] > b[2]

RECURSIVE SortedSeqOf(_)
SortedSeqOf(S) ==
  IF S = {} THEN <<>>
  ELSE LET m == CHOOSE x \in S : \A y \in S \ {x} : InternalKeyLess(x.key, y.key)
       IN  <<m>> \o SortedSeqOf(S \ {m})

AllEntries == {Entry(uk, seq) : uk \in UserKeys, seq \in SeqNos}

\* What a memtable iterator can yield: entries in strictly increasing
\* internal-key order.
Sources ==
  {SortedSeqOf(S) : S \in {T \in SUBSET AllEntries : Cardinality(T) <= MaxLen}}

OptionSets ==
  [purge_redundant_kvs_while_flush : BOOLEAN,
   disableDataSync : BOOLEAN,
   use_fsync : BOOLEAN]

NoKey == <<>>
NoEntry == [key |-> NoKey, value |-> <<>>]

\* BuildTable only compares newest_snapshot with earliest_seqno_in_memtable
\* (line 34): the snapshots just below and at the earliest sequence number
\* give both outcomes of the comparison, equality included.
SnapshotsAround(earliest) == {earliest - 1, earliest}

\* A file_size left in *meta by an earlier use of the descriptor.
StaleSizes == {0, MaxLen + 2}

\* line 38: fname = TableFileName(dbname, meta->number); the name is the
\* number with a fixed prefix and suffix, so the number stands for it.
\* A variant that does not use the number comes first.
FileNameFixed(m) == 0

FileName(m) == m.number

\* The output file of this invocation is on disk.
fileExists == FileName(meta) \in files

\* --------------------------------------------------------------- iterator
IterValid == iterStatus = OK /\ pos <= Len(src)
IterKey == src[pos].key
IterValue == src[pos].value

\* The entries the iterator has yielded and been advanced past.
Consumed == SubSeq(src, 1, pos - 1)

\* iter->Next(): advance; the source may find a read error instead of the
\* next entry, which leaves it invalid with a non-OK status.
IterNext(err) ==
  /\ pos' = pos + 1
  /\ iterStatus' = IF err THEN SourceErr ELSE iterStatus

\* ------------------------------------------------------------------- Init
Init ==
  /\ src \in Sources
  /\ pos = 1
  /\ iterStatus = OK
  /\ options \in OptionSets
  /\ earliest_seqno_in_memtable \in SeqNos
  /\ newest_snapshot \in SnapshotsAround(earliest_seqno_in_memtable)
  /\ meta \in [number : {1}, file_size : StaleSizes,
               smallest : {NoKey}, largest : {NoKey}]
  /\ s = OK
  /\ purge = FALSE
  /\ prev = NoEntry
  /\ builderState = "none"
  /\ builderOK = TRUE
  /\ builderDeleted = 0
  /\ added = <<>>
  /\ files = {}
  /\ peer = <<>>
  /\ log = <<>>
  /\ pc = "start"

Call(op, st) == [op |-> op, args |-> <<>>, st |-> st]

CallWith(op, args, st) == [op |-> op, args |-> args, st |-> st]

\* ------------------------------------------------------------ lines 26-38
\* A variant that leaves the caller's file_size in place.
MetaKeep(m) == m

MetaReset(m) == [m EXCEPT !.file_size = 0]

\* A variant without the snapshot test of lines 34-36.
PurgeDecisionNoSnapshot(opt, earliest, snapshot) ==
  opt.purge_redundant_kvs_while_flush

PurgeDecision(opt, earliest, snapshot) ==
  IF earliest <= snapshot THEN FALSE ELSE opt.purge_redundant_kvs_while_flush

Start ==
  /\ pc = "start"
  /\ s' = OK
  /\ meta' = MetaReset(meta)
  /\ pos' = 1
  /\ \E err \in BOOLEAN : iterStatus' = IF err THEN SourceErr ELSE OK
  /\ purge' = PurgeDecision(options, earliest_seqno_in_memtable, newest_snapshot)
  /\ pc' = "open"
  /\ UNCHANGED <<peer, src, options, newest_snapshot, earliest_seqno_in_memtable,
                 prev, builderState, builderOK, builderDeleted, added,
                 files, log>>

\* ------------------------------------------------------------ lines 39-49
\* env->NewWritableFile(fname, &file): on failure BuildTable returns at once;
\* on success the file exists, the TableBuilder is created and the first key
\* becomes meta->smallest.
\* A variant that leaves meta->smallest as the caller passed it.
SetSmallestNever(m, key) == m

SetSmallest(m, key) == [m EXCEPT !.smallest = key]

\* A variant that tries the creation again instead of returning.
AfterCreateFailureRetry == "open"

\* A variant that falls through to the epilogue instead of returning.
AfterCreateFailureFallThrough == "iter_status"

\* lines 42-44: "return s" right after the failed NewWritableFile.
AfterCreateFailure == "done"

CreateFile ==
  /\ pc = "open"
  /\ IterValid
  /\ \E ok \in BOOLEAN :
       IF ok
       THEN /\ s' = OK
            /\ files' = files \cup {FileName(meta)}
            /\ builderState' = "open"
            /\ meta' = SetSmallest(meta, IterKey)
            /\ log' = Append(log, Call("NewWritableFile", OK))
            /\ pc' = IF purge THEN "purge_first" ELSE "copy"
       ELSE /\ s' = CreateErr
            /\ log' = Append(log, Call("NewWritableFile", CreateErr))
            /\ pc' = AfterCreateFailure
            /\ UNCHANGED <<files, builderState, meta>>
  /\ UNCHANGED <<peer, src, pos, iterStatus, options, newest_snapshot,
                 earliest_seqno_in_memtable, purge, prev, builderOK,
                 builderDeleted, added>>

\* line 39, iter->Valid() false: the whole block is skipped.
SkipEmpty ==
  /\ pc = "open"
  /\ ~IterValid
  /\ pc' = "iter_status"
  /\ UNCHANGED <<peer, src, pos, iterStatus, options, newest_snapshot,
                 earliest_seqno_in_memtable, meta, s, purge, prev,
                 builderState, builderOK, builderDeleted, added, files,
                 log>>

\* ------------------------------------------------------- TableBuilder::Add
\* builder->Add(key, value) returns nothing: a write error stays inside the
\* builder (its status turns non-OK) until Finish reports it.
BuilderAdd(sofar, key, value) == Append(sofar, [key |-> key, value |-> value])

AddOutcome(ok) == builderOK' = (builderOK /\ ok)

\* A variant that sets largest only while it is still empty.
SetLargestOnce(m, key) ==
  IF m.largest = <<>> THEN [m EXCEPT !.largest = key] ELSE m

\* meta->largest.DecodeFrom(key), lines 84 and 89.
SetLargest(m, key) == [m EXCEPT !.largest = key]

\* ------------------------------------------------------------ lines 51-84
\* A variant that takes every entry for a new user key.
UserKeyAlwaysDiffers(a, b) == TRUE

\* A variant that tests Compare(a, b) > 0 instead of non-zero.
UserKeyGreater(a, b) == a > b

\* user_comparator->Compare(a, b) is non-zero.
UserKeyDiffers(a, b) == a # b

\* assert(ikey.sequence >= earliest_seqno_in_memtable), lines 60 and 66.
SeqnoAssert(ikey) == ikey.sequence >= earliest_seqno_in_memtable

\* A variant with the comparison of line 77 reversed.
OrderAssertReversed(this_ikey, prev_ikey) ==
  this_ikey.sequence > prev_ikey.sequence

\* assert(this_ikey.sequence < prev_ikey.sequence), line 77.
OrderAssert(this_ikey, prev_ikey) == this_ikey.sequence < prev_ikey.sequence

\* A violated assert aborts a debug build; a build with NDEBUG runs on.
AssertFails ==
  /\ pc' = "aborted"
  /\ UNCHANGED <<peer, src, pos, iterStatus, options, newest_snapshot,
                 earliest_seqno_in_memtable, meta, s, purge, prev,
                 builderState, builderOK, builderDeleted, added, files,
                 log>>

\* lines 56-62: store the first key-value, then the loop's iter->Next().
PurgeFirst ==
  /\ pc = "purge_first"
  /\ \/ /\ prev' = [key |-> IterKey, value |-> IterValue]
        /\ \E err \in BOOLEAN : IterNext(err)
        /\ pc' = "purge_loop"
        /\ UNCHANGED <<peer, src, options, newest_snapshot,
                       earliest_seqno_in_memtable, meta, s, purge,
                       builderState, builderOK, builderDeleted, added,
                       files, log>>
     \/ /\ ~SeqnoAssert(ParseInternalKey(IterKey))
        /\ AssertFails

\* lines 62-81: one iteration of the purge loop.
PurgeStep ==
  /\ pc = "purge_loop"
  /\ IterValid
  /\ LET this_ikey == ParseInternalKey(IterKey)
         prev_ikey == ParseInternalKey(prev.key)
         differs == UserKeyDiffers(prev_ikey.user_key, this_ikey.user_key)
     IN  \/ /\ IF differs
               THEN /\ added' = BuilderAdd(added, prev.key, prev.value)
                    /\ \E ok \in {TRUE, ~builderOK} : AddOutcome(ok)
                    /\ prev' = [key |-> IterKey, value |-> IterValue]
               ELSE UNCHANGED <<added, builderOK, prev>>
            /\ \E err \in BOOLEAN : IterNext(err)
            /\ pc' = "purge_loop"
            /\ UNCHANGED <<peer, src, options, newest_snapshot,
                           earliest_seqno_in_memtable, meta, s, purge,
                           builderState, builderDeleted, files, log>>
         \/ /\ \/ ~SeqnoAssert(this_ikey)
               \/ ~differs /\ ~OrderAssert(this_ikey, prev_ikey)
            /\ AssertFails

\* lines 82-84: output the last key.
PurgeLast ==
  /\ pc = "purge_loop"
  /\ ~IterValid
  /\ added' = BuilderAdd(added, prev.key, prev.value)
  /\ \E ok \in {TRUE, ~builderOK} : AddOutcome(ok)
  /\ meta' = SetLargest(meta, prev.key)
  /\ pc' = "finish"
  /\ UNCHANGED <<peer, src, pos, iterStatus, options, newest_snapshot,
                 earliest_seqno_in_memtable, s, purge, prev, builderState,
                 builderDeleted, files, log>>

\* ------------------------------------------------------------ lines 86-92
CopyStep ==
  /\ pc = "copy"
  /\ IterValid
  /\ meta' = SetLargest(meta, IterKey)
  /\ added' = BuilderAdd(added, IterKey, IterValue)
  /\ \E ok \in {TRUE, ~builderOK} : AddOutcome(ok)
  /\ \E err \in BOOLEAN : IterNext(err)
  /\ pc' = "copy"
  /\ UNCHANGED <<peer, src, options, newest_snapshot, earliest_seqno_in_memtable,
                 s, purge, prev, builderState, builderDeleted, files, log>>

CopyDone ==
  /\ pc = "copy"
  /\ ~IterValid
  /\ pc' = "finish"
  /\ UNCHANGED <<peer, src, pos, iterStatus, options, newest_snapshot,
                 earliest_seqno_in_memtable, meta, s, purge, prev,
                 builderState, builderOK, builderDeleted, added, files,
                 log>>

\* ----------------------------------------------------------- lines 94-104
\* builder->Finish() returns the builder's status: non-OK when an earlier
\* Add failed or when writing the index and footer fails now.
FinishStatus(bOK, ok) == IF bOK /\ ok THEN OK ELSE WriteErr

\* builder->FileSize() after Finish: the entries plus the footer.
FileSize(entries) == Len(entries) + 1

\* A variant that records the size whatever Finish returned.
RecordFileSizeAlways(m, st, entries) ==
  [m EXCEPT !.file_size = FileSize(entries)]

\* lines 97-100: meta->file_size is set only when Finish returned OK.
RecordFileSize(m, st, entries) ==
  IF st = OK THEN [m EXCEPT !.file_size = FileSize(entries)] ELSE m

\* A variant that releases the builder only on the success path.
DeleteBuilderIfOK(count, st) == IF st = OK THEN count + 1 ELSE count

\* line 104: "delete builder" runs whatever the status is.
DeleteBuilder(count, st) == count + 1

FinishBuilder ==
  /\ pc = "finish"
  /\ IF s = OK
     THEN \E ok \in BOOLEAN :
            LET st == FinishStatus(builderOK, ok)
            IN  /\ s' = st
                /\ builderState' = "finished"
                /\ log' = Append(log, Call("Finish", st))
                /\ meta' = RecordFileSize(meta, st, added)
     ELSE /\ builderState' = "abandoned"
          /\ log' = Append(log, Call("Abandon", OK))
          /\ UNCHANGED <<s, meta>>
  /\ builderDeleted' = DeleteBuilder(builderDeleted, s')
  /\ pc' = "sync"
  /\ UNCHANGED <<peer, src, pos, iterStatus, options, newest_snapshot,
                 earliest_seqno_in_memtable, purge, prev, builderOK, added,
                 files>>

\* ---------------------------------------------------------- lines 106-113
\* A variant that ignores options.disableDataSync.
SyncAlways(st, opt) == st = OK

SyncWanted(st, opt) == st = OK /\ ~opt.disableDataSync

SyncCall(opt) == IF opt.use_fsync THEN "Fsync" ELSE "Sync"

SyncFile ==
  /\ pc = "sync"
  /\ IF SyncWanted(s, options)
     THEN \E ok \in BOOLEAN :
            LET st == IF ok THEN OK ELSE SyncErr
            IN  /\ s' = st
                /\ log' = Append(log, Call(SyncCall(options), st))
     ELSE UNCHANGED <<s, log>>
  /\ pc' = "close"
  /\ UNCHANGED <<peer, src, pos, iterStatus, options, newest_snapshot,
                 earliest_seqno_in_memtable, meta, purge, prev, builderState,
                 builderOK, builderDeleted, added, files>>

\* ---------------------------------------------------------- lines 114-116
\* A variant that closes the file whatever the status so far.
CloseAlways(st) == TRUE

CloseWanted(st) == st = OK

CloseFile ==
  /\ pc = "close"
  /\ IF CloseWanted(s)
     THEN \E ok \in BOOLEAN :
            LET st == IF ok THEN OK ELSE CloseErr
            IN  /\ s' = st
                /\ log' = Append(log, Call("Close", st))
     ELSE UNCHANGED <<s, log>>
  /\ pc' = "verify"
  /\ UNCHANGED <<peer, src, pos, iterStatus, options, newest_snapshot,
                 earliest_seqno_in_memtable, meta, purge, prev, builderState,
                 builderOK, builderDeleted, added, files>>

\* ---------------------------------------------------------- lines 118-125
\* A variant that verifies whatever the status so far.
VerifyAlways(st) == TRUE

VerifyWanted(st) == st = OK

\* table_cache->NewIterator(ReadOptions(), meta->number, meta->file_size)
VerifyArgs(m) == <<m.number, m.file_size>>

VerifyTable ==
  /\ pc = "verify"
  /\ IF VerifyWanted(s)
     THEN \E ok \in BOOLEAN :
            LET st == IF ok THEN OK ELSE VerifyErr
            IN  /\ s' = st
                /\ log' = Append(log, CallWith("NewIterator", VerifyArgs(meta), st))
     ELSE UNCHANGED <<s, log>>
  /\ pc' = "iter_status"
  /\ UNCHANGED <<peer, src, pos, iterStatus, options, newest_snapshot,
                 earliest_seqno_in_memtable, meta, purge, prev, builderState,
                 builderOK, builderDeleted, added, files>>

\* ---------------------------------------------------------- lines 128-131
\* A variant that assigns iter->status() without the test of line 129.
FinalStatusAlwaysIter(st, iterSt) == iterSt

\* A variant in which an earlier error is kept over the source's.
FinalStatusKeepFirst(st, iterSt) == IF st = OK THEN iterSt ELSE st

\* A variant without the check of lines 129-131.
FinalStatusNoCheck(st, iterSt) == st

FinalStatus(st, iterSt) == IF iterSt # OK THEN iterSt ELSE st

CheckIterStatus ==
  /\ pc = "iter_status"
  /\ s' = FinalStatus(s, iterStatus)
  /\ pc' = "epilogue"
  /\ UNCHANGED <<peer, src, pos, iterStatus, options, newest_snapshot,
                 earliest_seqno_in_memtable, meta, purge, prev, builderState,
                 builderOK, builderDeleted, added, files, log>>

\* ---------------------------------------------------------- lines 133-138
\* A variant that forgets the status test of line 133.
KeepFileSizeOnly(st, size) == size > 0

KeepFile(st, size) == st = OK /\ size > 0

Epilogue ==
  /\ pc = "epilogue"
  /\ IF KeepFile(s, meta.file_size)
     THEN UNCHANGED <<files, log>>
     ELSE /\ files' = files \ {FileName(meta)}
          /\ log' = Append(log, Call("DeleteFile", OK))
  /\ pc' = "done"
  /\ UNCHANGED <<peer, src, pos, iterStatus, options, newest_snapshot,
                 earliest_seqno_in_memtable, meta, s, purge, prev,
                 builderState, builderOK, builderDeleted, added>>

Next ==
  \/ Start
  \/ CreateFile
  \/ SkipEmpty
  \/ PurgeFirst
  \/ PurgeStep
  \/ PurgeLast
  \/ CopyStep
  \/ CopyDone
  \/ FinishBuilder
  \/ SyncFile
  \/ CloseFile
  \/ VerifyTable
  \/ CheckIterStatus
  \/ Epilogue

Spec == Init /\ [][Next]_vars

\* BuildTable is one synchronous call: the thread running it keeps taking
\* its next step until it returns (or an assert aborts the process).
LiveSpec == Init /\ [][Next]_vars /\ WF_vars(Next)

\* ------------------------------------------------- two invocations at once
\* BuildTable keeps everything it computes in its parameters and locals;
\* what two invocations share is the Env's files.  One record holds the
\* parameters, locals and position of an invocation.
Invocation ==
  [src |-> src, pos |-> pos, iterStatus |-> iterStatus, options |-> options,
   newest_snapshot |-> newest_snapshot,
   earliest_seqno_in_memtable |-> earliest_seqno_in_memtable,
   meta |-> meta, s |-> s, purge |-> purge, prev |-> prev,
   builderState |-> builderState, builderOK |-> builderOK,
   builderDeleted |-> builderDeleted, added |-> added, log |-> log,
   pc |-> pc]

\* The scheduler moves from one thread to the other between two steps: the
\* running invocation is parked with all its state, the parked one resumes
\* where it stopped.  The files are not touched.
Switch ==
  /\ peer # <<>>
  /\ peer' = <<Invocation>>
  /\ src' = peer[1].src
  /\ pos' = peer[1].pos
  /\ iterStatus' = peer[1].iterStatus
  /\ options' = peer[1].options
  /\ newest_snapshot' = peer[1].newest_snapshot
  /\ earliest_seqno_in_memtable' = peer[1].earliest_seqno_in_memtable
  /\ meta' = peer[1].meta
  /\ s' = peer[1].s
  /\ purge' = peer[1].purge
  /\ prev' = peer[1].prev
  /\ builderState' = peer[1].builderState
  /\ builderOK' = peer[1].builderOK
  /\ builderDeleted' = peer[1].builderDeleted
  /\ added' = peer[1].added
  /\ log' = peer[1].log
  /\ pc' = peer[1].pc
  /\ UNCHANGED files

\* Inputs of the two invocations: an empty source and one with two versions
\* of a user key, with and without purging, so that both take every path.
TwoSources == {<<>>, <<Entry(1, 2), Entry(1, 1)>>}

TwoOptions ==
  [purge_redundant_kvs_while_flush : BOOLEAN,
   disableDataSync : {FALSE},
   use_fsync : {FALSE}]

\* The state of an invocation about to start, writing file `number`.
Fresh(number) ==
  [src : TwoSources, pos : {1}, iterStatus : {OK}, options : TwoOptions,
   newest_snapshot : {0}, earliest_seqno_in_memtable : {1},
   meta : [number : {number}, file_size : {0},
           smallest : {NoKey}, largest : {NoKey}],
   s : {OK}, purge : {FALSE}, prev : {NoEntry}, builderState : {"none"},
   builderOK : {TRUE}, builderDeleted : {0}, added : {<<>>}, log : {<<>>},
   pc : {"start"}]

TwoInit ==
  /\ src \in TwoSources
  /\ pos = 1
  /\ iterStatus = OK
  /\ options \in TwoOptions
  /\ earliest_seqno_in_memtable = 1
  /\ newest_snapshot = 0
  /\ meta = [number |-> 1, file_size |-> 0,
             smallest |-> NoKey, largest |-> NoKey]
  /\ s = OK
  /\ purge = FALSE
  /\ prev = NoEntry
  /\ builderState = "none"
  /\ builderOK = TRUE
  /\ builderDeleted = 0
  /\ added = <<>>
  /\ files = {}
  /\ peer \in {<<r>> : r \in Fresh(2)}
  /\ log = <<>>
  /\ pc = "start"

TwoNext == Next \/ Switch

TwoSpec == TwoInit /\ [][TwoNext]_vars

\* ================================================================ claims
Returned == pc = "done"

\* NewWritableFile succeeded: the file and the TableBuilder were created.
Created == builderState # "none"

\* The scan is over and the builder holds every entry it was given.
PassDone ==
  Created /\ pc \in {"finish", "sync", "close", "verify", "iter_status",
                     "epilogue", "done"}

\* iter->Valid() was false right after SeekToFirst.
EmptyAtFirst == pc # "start" /\ pos = 1 /\ ~IterValid

Called(op) == \E i \in 1..Len(log) : log[i].op = op

Returns(op, st) == \E i \in 1..Len(log) : log[i].op = op /\ log[i].st = st

Failed(op) == \E i \in 1..Len(log) : log[i].op = op /\ log[i].st # OK

\* The failures injected so far, by stage.
InjectedFaults ==
  {f \in {"create", "add", "finish", "sync", "close", "verify", "source"} :
     \/ f = "create" /\ Failed("NewWritableFile")
     \/ f = "add" /\ ~builderOK
     \/ f = "finish" /\ builderOK /\ Failed("Finish")
     \/ f = "sync" /\ (Failed("Fsync") \/ Failed("Sync"))
     \/ f = "close" /\ Failed("Close")
     \/ f = "verify" /\ Failed("NewIterator")
     \/ f = "source" /\ iterStatus # OK}

\* Purge is requested by the options and allowed by the snapshot watermark.
PurgeRequested ==
  /\ options.purge_redundant_kvs_while_flush
  /\ earliest_seqno_in_memtable > newest_snapshot

UserKeyOf(e) == e.key[1]
SeqOf(e) == e.key[2]

\* C1: when BuildTable returns, the output file exists on disk if and only
\* if the returned status is OK and meta->file_size > 0; in every other
\* case no file is left.
C1_FileIffCommitted ==
  Returned => (fileExists <=> (s = OK /\ meta.file_size > 0))

\* A build that created and finished the file, failed afterwards and
\* returned with the file deleted.
C1_Witness ==
  /\ Returned
  /\ Returns("Finish", OK)
  /\ s # OK
  /\ meta.file_size > 0
  /\ ~fileExists

\* C2: for a non-empty source, a single injected failure of file creation,
\* of a write (during Add or at Finish), of the sync, of Close or of the
\* verification makes BuildTable return a non-OK status and leaves no file.
C2_SingleFailureDiscards ==
  (/\ Returned
   /\ Cardinality(InjectedFaults) = 1
   /\ InjectedFaults \subseteq
        {"create", "add", "finish", "sync", "close", "verify"})
  => (s # OK /\ ~fileExists)

\* An Add failed inside the builder and nothing else did.
C2_Witness ==
  /\ Returned
  /\ InjectedFaults = {"add"}
  /\ Len(added) >= 2
  /\ s # OK
  /\ ~fileExists

\* C3: with purge requested and earliest_seqno_in_memtable >
\* newest_snapshot, once the pass is over the entries passed to Add are, for
\* each run of consumed entries sharing a user key, exactly the entry of
\* that run with the largest sequence number, value unchanged, in source
\* order; smallest and largest are the keys of the first and last Add.
C3_PurgeKeepsNewest ==
  (PurgeRequested /\ PassDone) =>
    LET userKeys == {UserKeyOf(Consumed[i]) : i \in 1..Len(Consumed)}
    IN  /\ Len(added) = Cardinality(userKeys)
        /\ \A j \in 1..Len(added) :
             /\ \E i \in 1..Len(Consumed) : Consumed[i] = added[j]
             /\ \A i \in 1..Len(Consumed) :
                  UserKeyOf(Consumed[i]) = UserKeyOf(added[j])
                    => SeqOf(Consumed[i]) <= SeqOf(added[j])
        /\ \A j \in 1..Len(added), k \in 1..Len(added) :
             j < k => UserKeyOf(added[j]) < UserKeyOf(added[k])
        /\ Len(added) > 0
        /\ meta.smallest = added[1].key
        /\ meta.largest = added[Len(added)].key

\* A purge pass over three entries of which one is an older version.
C3_Witness ==
  /\ PurgeRequested
  /\ PassDone
  /\ iterStatus = OK
  /\ Len(src) = 3
  /\ Len(added) = 2
  /\ meta.smallest # meta.largest

\* C4: when earliest_seqno_in_memtable <= newest_snapshot purge is off from
\* the moment the decision is taken (before the first entry is read) to the
\* end, whatever the options say, and the entries passed to Add are exactly
\* the entries consumed, older versions included.
C4_SnapshotSuppressesPurge ==
  (earliest_seqno_in_memtable <= newest_snapshot) =>
    /\ pc # "start" => ~purge
    /\ pc = "open" => added = <<>>
    /\ Created => added = Consumed
    /\ (PassDone /\ iterStatus = OK) => added = src

\* Purge is configured, the snapshot suppresses it, and two versions of one
\* user key were both written.
C4_Witness ==
  /\ options.purge_redundant_kvs_while_flush
  /\ earliest_seqno_in_memtable <= newest_snapshot
  /\ PassDone
  /\ Len(added) = 3
  /\ UserKeyOf(added[1]) = UserKeyOf(added[2])

\* C5: for a non-empty source with purge not in effect every entry is
\* passed to Add exactly once, in order and unmodified, and after the pass
\* smallest is the first source key and largest the last one consumed (the
\* last source key when the iterator reported no error).
C5_CopyIsExact ==
  (~PurgeRequested /\ PassDone) =>
    /\ added = Consumed
    /\ Len(added) > 0
    /\ meta.smallest = src[1].key
    /\ meta.largest = Consumed[Len(Consumed)].key
    /\ iterStatus = OK => (added = src /\ meta.largest = src[Len(src)].key)

\* A copy pass over a full-length source.
C5_Witness ==
  /\ ~PurgeRequested
  /\ PassDone
  /\ iterStatus = OK
  /\ Len(added) = MaxLen
  /\ meta.smallest = src[1].key
  /\ meta.largest = src[MaxLen].key

StageOps == {"NewWritableFile", "Finish", "Abandon", "Fsync", "Sync", "Close",
             "NewIterator"}

NoStageOps == \A i \in 1..Len(log) : log[i].op \notin StageOps

\* C6 as stated: an empty source (iter->Valid() false right after
\* SeekToFirst) always yields success with file_size 0 and no file, without
\* NewWritableFile, a TableBuilder, a sync, a close or a verification.
C6_EmptyAlwaysSucceeds ==
  (Returned /\ EmptyAtFirst) =>
    /\ s = OK
    /\ meta.file_size = 0
    /\ ~fileExists
    /\ builderState = "none"
    /\ NoStageOps

\* C6 amended: when iter->Valid() is false right after SeekToFirst,
\* BuildTable returns iter->status() (OK for a source that is simply empty,
\* the error for a source that failed), with file_size 0, no file, and
\* without NewWritableFile, a TableBuilder, a sync, a close or a
\* verification.
C6_EmptyReturnsSourceStatus ==
  (Returned /\ EmptyAtFirst) =>
    /\ s = iterStatus
    /\ Len(src) = 0 /\ iterStatus = OK => s = OK
    /\ meta.file_size = 0
    /\ ~fileExists
    /\ builderState = "none"
    /\ NoStageOps

\* An empty source with an OK status: success, size 0, only DeleteFile called.
C6_Witness ==
  /\ Returned
  /\ Len(src) = 0
  /\ iterStatus = OK
  /\ s = OK
  /\ meta.file_size = 0
  /\ log = <<Call("DeleteFile", OK)>>

\* C7: iter->status() is checked after the scan, Finish, sync, Close and
\* verification; when it is non-OK BuildTable returns it, also when every
\* stage before succeeded, and the output file is deleted.
C7_SourceErrorOverrides ==
  (pc \in {"epilogue", "done"} /\ iterStatus # OK) =>
    /\ s = iterStatus
    /\ Returned => ~fileExists
    /\ (Returned /\ Created) => log[Len(log)].op = "DeleteFile"

\* Every stage succeeded, the source reports an error, the file is gone.
C7_Witness ==
  /\ Returned
  /\ iterStatus # OK
  /\ Returns("Finish", OK)
  /\ Returns("Close", OK)
  /\ Returns("NewIterator", OK)
  /\ s # OK
  /\ ~fileExists

SyncOps == {"Fsync", "Sync"}

AfterSyncStage == pc \in {"close", "verify", "iter_status", "epilogue", "done"}

\* C8: after a successful Finish exactly one sync is issued unless
\* disableDataSync is set (then none): Fsync with use_fsync, otherwise Sync;
\* Close comes only after that sync returned OK (or syncing is disabled),
\* never before it; a failed sync or Close makes the result non-OK.
C8_SyncThenClose ==
  LET syncs == {i \in 1..Len(log) : log[i].op \in SyncOps}
  IN  /\ syncs # {} => Returns("Finish", OK)
      /\ (AfterSyncStage /\ Returns("Finish", OK)) =>
           IF options.disableDataSync
           THEN syncs = {}
           ELSE /\ Cardinality(syncs) = 1
                /\ \A i \in syncs :
                     log[i].op = IF options.use_fsync THEN "Fsync" ELSE "Sync"
      /\ \A i \in 1..Len(log) :
           log[i].op = "Close" =>
             /\ \A j \in syncs : j < i /\ log[j].st = OK
             /\ ~options.disableDataSync => syncs # {}
             /\ \E j \in 1..(i - 1) : log[j] = Call("Finish", OK)
      /\ (Returned /\ (Failed("Fsync") \/ Failed("Sync") \/ Failed("Close")))
           => s # OK

\* Syncing enabled: one Sync returned OK, then Close failed.
C8_Witness ==
  /\ Returned
  /\ ~options.disableDataSync
  /\ ~options.use_fsync
  /\ Returns("Sync", OK)
  /\ Failed("Close")
  /\ s # OK

\* C9: TableCache::NewIterator is called with meta->number and the
\* file_size recorded at Finish, and only right after Close returned OK; a
\* non-OK status from it makes the result non-OK and the file is deleted;
\* BuildTable never returns OK for a non-empty source unless the
\* verification ran and returned OK.
C9_VerifyAfterClose ==
  /\ \A i \in 1..Len(log) :
       log[i].op = "NewIterator" =>
         /\ i > 1
         /\ log[i - 1] = Call("Close", OK)
         /\ Returns("Finish", OK)
         /\ \A j \in 1..Len(log) : log[j].op \in SyncOps => log[j].st = OK
         /\ log[i].args = <<meta.number, FileSize(added)>>
         /\ meta.file_size = FileSize(added)
  /\ (Returned /\ Failed("NewIterator")) => (s # OK /\ ~fileExists)
  /\ (Returned /\ s = OK /\ ~EmptyAtFirst) => Returns("NewIterator", OK)

\* The table was written, synced and closed, and the verification failed.
C9_Witness ==
  /\ Returned
  /\ Returns("Close", OK)
  /\ Failed("NewIterator")
  /\ iterStatus = OK
  /\ s = VerifyErr
  /\ ~fileExists

\* The states of the invocation: Idle, Scanning, Finalizing, Syncing,
\* Closing, Verifying, the epilogue, and the terminal outcome.
StageOf(p) ==
  CASE p \in {"start", "open"} -> 0
    [] p \in {"purge_first", "purge_loop", "copy"} -> 1
    [] p = "finish" -> 2
    [] p = "sync" -> 3
    [] p = "close" -> 4
    [] p = "verify" -> 5
    [] p \in {"iter_status", "epilogue"} -> 6
    [] OTHER -> 7

OpStage(op) ==
  CASE op = "NewWritableFile" -> 1
    [] op \in {"Finish", "Abandon"} -> 2
    [] op \in SyncOps -> 3
    [] op = "Close" -> 4
    [] op = "NewIterator" -> 5
    [] OTHER -> 6

\* The operations are invoked in stage order, each stage at most once.
OpsMoveForward ==
  \A i \in 1..Len(log), j \in 1..Len(log) :
    i < j => OpStage(log[i].op) < OpStage(log[j].op)

\* A stage operation that returned non-OK is followed by no further stage
\* operation.
FailureSkipsRest ==
  \A i \in 1..Len(log), j \in 1..Len(log) :
    (i < j /\ log[i].st # OK) => log[j].op = "DeleteFile"

\* A failed invocation ends Discarded: no file.
FailureDiscards == (Returned /\ s # OK) => ~fileExists

\* Every failed invocation ran the epilogue's DeleteFile.
FailureAlwaysCleans ==
  (Returned /\ s # OK) => (log # <<>> /\ log[Len(log)].op = "DeleteFile")

\* A failed invocation ran the epilogue's DeleteFile, except after a failed
\* NewWritableFile, where it returned at once.
FailureCleansUnlessCreateFailed ==
  (Returned /\ s # OK) =>
    IF Failed("NewWritableFile")
    THEN log = <<Call("NewWritableFile", CreateErr)>>
    ELSE log # <<>> /\ log[Len(log)].op = "DeleteFile"

\* C10 as stated: the invocation only moves forward through Idle, Scanning,
\* Finalizing, Syncing, Closing, Verifying to Committed or Discarded; a
\* failed stage operation (file creation included) skips the remaining stage
\* operations, and the epilogue's DeleteFile always runs after a failure.
C10_ForwardAlwaysCleanup ==
  [][/\ StageOf(pc') >= StageOf(pc)
     /\ OpsMoveForward'
     /\ FailureSkipsRest'
     /\ FailureDiscards'
     /\ FailureAlwaysCleans']_vars

\* C10 amended: as stated, except that a failed NewWritableFile returns at
\* once without DeleteFile (no file was created); after every other failure
\* the epilogue's DeleteFile runs.
C10_ForwardCleanupIfCreated ==
  [][/\ StageOf(pc') >= StageOf(pc)
     /\ OpsMoveForward'
     /\ FailureSkipsRest'
     /\ FailureDiscards'
     /\ FailureCleansUnlessCreateFailed']_vars

\* A sync failure: no Close and no verification, then DeleteFile.
C10_Witness ==
  /\ Returned
  /\ s = SyncErr
  /\ ~Called("Close")
  /\ ~Called("NewIterator")
  /\ log[Len(log)].op = "DeleteFile"
  /\ ~fileExists

\* C11 as stated: when an Add has failed inside the writer, the writer is
\* abandoned instead of finished (Finish is not called), and the output file
\* is deleted in the epilogue.
C11_AddErrorAbandons ==
  (Created /\ ~builderOK /\ builderState # "open") =>
    /\ builderState = "abandoned"
    /\ Called("Abandon")
    /\ ~Called("Finish")
    /\ Returned => ~fileExists

\* The writer failed in an Add, before Finish.
AddFailed == Created /\ ~builderOK

\* C12 as stated: for a non-empty source, when the write stage fails after
\* an Add and before finalize, BuildTable returns failure, no file exists
\* afterwards, and the descriptor is as in its zero state: file_size 0,
\* smallest and largest not populated.
C12_WriteFailureLeavesMetaZero ==
  (Returned /\ AddFailed) =>
    /\ s # OK
    /\ ~fileExists
    /\ meta.file_size = 0
    /\ meta.smallest = NoKey
    /\ meta.largest = NoKey

\* C12 amended: in that case BuildTable returns failure, no file exists
\* afterwards and file_size is 0; smallest and largest are not restored:
\* smallest holds the first source key and largest the key of the last
\* entry passed to Add.
C12_WriteFailureKeepsKeys ==
  (Returned /\ AddFailed) =>
    /\ s # OK
    /\ ~fileExists
    /\ meta.file_size = 0
    /\ meta.smallest = src[1].key
    /\ meta.largest = added[Len(added)].key

\* One entry, its Add failed, Finish reported the error.
C12_Witness ==
  /\ Returned
  /\ AddFailed
  /\ Len(src) = 1
  /\ Len(added) = 1
  /\ s = WriteErr
  /\ meta.file_size = 0
  /\ meta.smallest = src[1].key
  /\ ~fileExists

\* The calls that end the writer's life.
Terminations == {i \in 1..Len(log) : log[i].op \in {"Finish", "Abandon"}}

\* The builder is terminated once and released once as soon as the scan is
\* over, and not before.
BuilderReleasedOnce ==
  /\ builderDeleted <= 1
  /\ ~Created => (builderDeleted = 0 /\ Terminations = {})
  /\ pc \in {"purge_first", "purge_loop", "copy", "finish"} =>
       (builderDeleted = 0 /\ Terminations = {})
  /\ (Created /\ pc \in {"sync", "close", "verify", "iter_status",
                         "epilogue", "done"}) =>
       /\ builderDeleted = 1
       /\ Cardinality(Terminations) = 1
       /\ builderState \in {"finished", "abandoned"}
  /\ (\E i \in 1..Len(log) :
        log[i].op \in {"Fsync", "Sync", "Close", "NewIterator", "DeleteFile"}
        /\ Created) => builderDeleted = 1

\* C13: on every path that created a TableBuilder it is terminated by
\* exactly one of Finish or Abandon and then released exactly once, before
\* any sync, close, verification or return; no return leaves it unreleased
\* and it is not used after its release.
C13_BuilderReleasedOnce ==
  [][/\ BuilderReleasedOnce'
     /\ builderDeleted >= 1 =>
          /\ added' = added
          /\ builderOK' = builderOK
          /\ builderState' = builderState
          /\ builderDeleted' = builderDeleted]_vars

\* A build whose Finish failed returned with the builder released.
C13_Witness ==
  /\ Returned
  /\ Created
  /\ Failed("Finish")
  /\ builderDeleted = 1
  /\ ~Called("Close")

\* C14: meta->file_size is 0 from the start of the invocation (whatever it
\* held before) until Finish returns OK, is then set once to the writer's
\* final size, which is positive, and is never reset: on return it is
\* positive exactly when Finish succeeded, also when a later sync, close,
\* verification or source failure made the result non-OK and the file was
\* deleted.
C14_FileSizeFollowsFinish ==
  /\ pc # "start" =>
       meta.file_size = IF Returns("Finish", OK) THEN FileSize(added) ELSE 0
  /\ Returns("Finish", OK) => meta.file_size > 0
  /\ Returned => (meta.file_size > 0 <=> Returns("Finish", OK))

\* Finish succeeded, Close failed: non-OK, file deleted, size still positive.
C14_Witness ==
  /\ Returned
  /\ Returns("Finish", OK)
  /\ s = CloseErr
  /\ meta.file_size = FileSize(added)
  /\ meta.file_size > 0
  /\ ~fileExists

\* C16: when NewWritableFile fails, BuildTable returns that status as it is
\* and at once: no TableBuilder, no Add, no Finish or Abandon, no sync, Close
\* or verification, no look at the source's status, no DeleteFile, and
\* meta->file_size is 0.
C16_CreateFailureReturnsAtOnce ==
  Failed("NewWritableFile") =>
    /\ Returned
    /\ s = CreateErr
    /\ log = <<Call("NewWritableFile", CreateErr)>>
    /\ builderState = "none"
    /\ builderDeleted = 0
    /\ added = <<>>
    /\ pos = 1
    /\ meta.file_size = 0
    /\ meta.smallest = NoKey
    /\ meta.largest = NoKey
    /\ ~fileExists

\* The creation of the file for a full-length source failed.
C16_Witness ==
  /\ Returned
  /\ Len(src) = MaxLen
  /\ s = CreateErr
  /\ ~Called("DeleteFile")
  /\ added = <<>>

\* The ordering invariant of a source: user keys ascending, sequence
\* numbers strictly descending within a user key.
SourceSorted ==
  \A i \in 1..(Len(src) - 1) : InternalKeyLess(src[i].key, src[i + 1].key)

\* No entry of the source is older than earliest_seqno_in_memtable.
SeqnosRespectEarliest ==
  \A i \in 1..Len(src) : SeqOf(src[i]) >= earliest_seqno_in_memtable

\* C17: in purge mode, for a sorted source whose sequence numbers are all at
\* least earliest_seqno_in_memtable, no assertion of the purge pass fails:
\* every entry read has a sequence >= earliest_seqno_in_memtable, and an
\* entry with the pending entry's user key has a strictly smaller sequence
\* number; such an entry is dropped and the pending slot stays as it is.
C17_PurgeAssertionsHold ==
  [][(purge /\ SourceSorted /\ SeqnosRespectEarliest) =>
       /\ pc' # "aborted"
       /\ pc = "purge_first" =>
            ParseInternalKey(IterKey).sequence >= earliest_seqno_in_memtable
       /\ (pc = "purge_loop" /\ IterValid) =>
            LET this_ikey == ParseInternalKey(IterKey)
                prev_ikey == ParseInternalKey(prev.key)
            IN  /\ this_ikey.sequence >= earliest_seqno_in_memtable
                /\ this_ikey.user_key = prev_ikey.user_key =>
                     /\ this_ikey.sequence < prev_ikey.sequence
                     /\ prev' = prev
                     /\ added' = added
                     /\ builderOK' = builderOK
                     /\ pos' = pos + 1]_vars

\* The second entry was an older version of the first and has been dropped.
C17_Witness ==
  /\ purge
  /\ SeqnosRespectEarliest
  /\ pc = "purge_loop"
  /\ pos = 3
  /\ UserKeyOf(src[2]) = UserKeyOf(src[1])
  /\ prev = src[1]
  /\ added = <<>>

\* The number of Add calls that passed entry e.
TimesAdded(e) == Cardinality({j \in 1..Len(added) : added[j] = e})

\* C18: for a sorted source every key passed to Add is strictly greater, in
\* internal-key order, than the key of the Add before it; in purge mode the
\* user keys of consecutive Adds are strictly increasing, and the pending
\* entry is emitted exactly once: not while it is pending, once when the
\* user key changes or the source is exhausted.
C18_AddsStrictlyIncrease ==
  SourceSorted =>
    /\ \A j \in 1..(Len(added) - 1) :
         InternalKeyLess(added[j].key, added[j + 1].key)
    /\ purge =>
         /\ \A j \in 1..(Len(added) - 1) :
              UserKeyOf(added[j]) < UserKeyOf(added[j + 1])
         /\ pc = "purge_loop" => TimesAdded(prev) = 0
         /\ PassDone => (TimesAdded(prev) = 1 /\ added[Len(added)] = prev)
         /\ \A j \in 1..Len(added) : TimesAdded(added[j]) = 1

\* The pending entry of the first user key was emitted when the second user
\* key appeared, which is now pending.
C18_Witness ==
  /\ purge
  /\ pc = "purge_loop"
  /\ Len(added) = 1
  /\ UserKeyOf(added[1]) < UserKeyOf(prev)
  /\ IterValid
  /\ UserKeyOf(src[pos]) = UserKeyOf(prev)

\* The stage operations that returned a non-OK status.
FailedCalls == {i \in 1..Len(log) : log[i].op \in StageOps /\ log[i].st # OK}

\* C19: when the output file was created, BuildTable returns the source's
\* deferred status if that is non-OK, even over an earlier Finish, sync,
\* Close or verification error; otherwise the status of the first failing
\* stage among Finish, sync, Close, verification, after which no later stage
\* has run; otherwise OK.
C19_ReturnedStatus ==
  (Returned /\ Created) =>
    /\ Cardinality(FailedCalls) <= 1
    /\ \A i \in FailedCalls :
         /\ log[i].op \in {"Finish", "Fsync", "Sync", "Close", "NewIterator"}
         /\ \A j \in (i + 1)..Len(log) : log[j].op \notin StageOps
    /\ s = IF iterStatus # OK THEN iterStatus
           ELSE IF Failed("Finish") THEN WriteErr
           ELSE IF Failed("Fsync") \/ Failed("Sync") THEN SyncErr
           ELSE IF Failed("Close") THEN CloseErr
           ELSE IF Failed("NewIterator") THEN VerifyErr
           ELSE OK

\* Close failed and the source reported an error: the source's status wins.
C19_Witness ==
  /\ Returned
  /\ Created
  /\ Failed("Close")
  /\ iterStatus = SourceErr
  /\ s = SourceErr

Aborted == pc = "aborted"

\* Committed: OK and the file kept.  Discarded: no file.
Committed == Returned /\ s = OK /\ fileExists
Discarded == Returned /\ ~fileExists

TimesCalled(ops) == Cardinality({i \in 1..Len(log) : log[i].op \in ops})

\* No stage operation is invoked twice.
NoRetry ==
  /\ TimesCalled({"NewWritableFile"}) <= 1
  /\ TimesCalled({"Finish", "Abandon"}) <= 1
  /\ TimesCalled(SyncOps) <= 1
  /\ TimesCalled({"Close"}) <= 1
  /\ TimesCalled({"NewIterator"}) <= 1
  /\ TimesCalled({"DeleteFile"}) <= 1

\* C20: an invocation on a finite source terminates whatever the
\* collaborators return: it returns whenever the source honours
\* earliest_seqno_in_memtable (otherwise a debug build may abort in an
\* assert), a return is final and is exactly one of Committed and Discarded,
\* and no stage operation is invoked more than once.
C20_TerminatesWithoutRetry ==
  /\ <>(Returned \/ (Aborted /\ ~SeqnosRespectEarliest))
  /\ [](NoRetry)
  /\ [](Returned => ((Committed \/ Discarded) /\ ~(Committed /\ Discarded)))
  /\ [](Returned => ~ENABLED Next)

\* A full-length build that ran every stage once and was committed.
C20_Witness ==
  /\ Committed
  /\ Len(src) = MaxLen
  /\ TimesCalled(StageOps) = IF options.disableDataSync THEN 4 ELSE 5
  /\ ~Called("DeleteFile")

\* ----------------------------------------------------------------- C15
\* Both invocations, the running one and the parked one.
Invocations == {Invocation} \cup {peer[i] : i \in 1..Len(peer)}

InvReturns(r, op, st) ==
  \E i \in 1..Len(r.log) : r.log[i].op = op /\ r.log[i].st = st

InvCalled(r, op) == \E i \in 1..Len(r.log) : r.log[i].op = op

InvFailed(r, op) ==
  \E i \in 1..Len(r.log) : r.log[i].op = op /\ r.log[i].st # OK

\* What the invocation's own calls did to its file: created and not deleted.
OwnFilePresent(r) ==
  InvReturns(r, "NewWritableFile", OK) /\ ~InvCalled(r, "DeleteFile")

\* The status an invocation returns when it runs alone, from the outcomes
\* of its own collaborator calls.
SoloStatus(r) ==
  IF InvFailed(r, "NewWritableFile") THEN CreateErr
  ELSE IF r.iterStatus # OK THEN r.iterStatus
  ELSE IF InvFailed(r, "Finish") THEN WriteErr
  ELSE IF InvFailed(r, "Fsync") \/ InvFailed(r, "Sync") THEN SyncErr
  ELSE IF InvFailed(r, "Close") THEN CloseErr
  ELSE IF InvFailed(r, "NewIterator") THEN VerifyErr
  ELSE OK

\* The file_size an invocation leaves in its descriptor when it runs alone.
SoloFileSize(r) ==
  IF InvReturns(r, "Finish", OK) THEN FileSize(r.added) ELSE 0

\* The invocation behaves as it does alone: its file is on disk exactly
\* when its own calls left it there, and once it has returned, its status,
\* descriptor and file are those of a run on its own.
AsAlone(r) ==
  /\ (FileName(r.meta) \in files) <=> OwnFilePresent(r)
  /\ r.pc = "done" =>
       /\ r.s = SoloStatus(r)
       /\ r.meta.file_size = SoloFileSize(r)
       /\ (FileName(r.meta) \in files) <=> (r.s = OK /\ r.meta.file_size > 0)

\* A step of one invocation leaves every file but its own as it was.
OthersFilesKept ==
  \A r \in Invocations :
    FileName(r.meta) # FileName(meta) =>
      ((FileName(r.meta) \in files') <=> (FileName(r.meta) \in files))

\* C15: two invocations with different meta->number, interleaved in any
\* way, do not interfere: a step of one creates or deletes only the file
\* named by its own number, and each one's status, descriptor and file
\* presence are those of a run on its own.
C15_NoInterference ==
  /\ [](\A r \in Invocations : AsAlone(r))
  /\ [][OthersFilesKept]_vars

\* Both have returned after running interleaved: the running one kept its
\* file, the parked one created its file, failed and deleted it.
C15_Witness ==
  /\ peer # <<>>
  /\ pc = "done"
  /\ s = OK
  /\ FileName(meta) \in files
  /\ peer[1].pc = "done"
  /\ peer[1].s = CloseErr
  /\ InvCalled(peer[1], "DeleteFile")
  /\ FileName(peer[1].meta) \notin files
  /\ FileName(peer[1].meta) # FileName(meta)
=============================================================================
